---- MODULE Spec2Model ----
(***************************************************************************)
(* Rule-based risk scoring engine of the payment gateway proxy:            *)
(* FraudService (rule store, condition evaluator, scoring) and the         *)
(* ConfigLoader it reads the risky-domain and currency lists from.         *)
(*                                                                         *)
(* Numbers.  A rule's `score` is kept in units of 1/ScoreScale of a        *)
(* percentage point, so that fractional scores and Math.round are          *)
(* represented exactly.  Values on the 0..1 scale (riskScore, the          *)
(* threshold) are fractions [num, den].                                    *)
(*                                                                         *)
(* Strings.  A string is a sequence of atoms ("u", "@", ".ru", ...);       *)
(* toLowerCase / toUpperCase map atoms, split and endsWith work on the     *)
(* sequence.                                                               *)
(***************************************************************************)
EXTENDS Integers, Sequences, FiniteSets, TLC

\* ------------------------------------------------------------------ bounds
\* resolution of a score: one percentage point is ScoreScale units
ScoreScale == 10
\* longest rule set drawn for the scoring specification
MaxRules == 3
\* evaluations that may be in flight at once
NumEvals == 2
\* reads of the rule source that are counted
MaxReads == 3

Evals == 1..NumEvals

\* the caller of generateFraudExplanation that is the health probe
Prober == 0

\* the callers of generateFraudExplanation: the requests and the health probe
Callers == Evals \cup {Prober}

Pts(n) == n * ScoreScale

\* --------------------------------------------------------------- fractions
Frac(n, d) == [num |-> n, den |-> d]

FracGeq(a, b) == a.num * b.den >= b.num * a.den

\* FRAUD_SCORING.HIGH_RISK_THRESHOLD = 0.5
HIGH_RISK_THRESHOLD == Frac(1, 2)

\* ----------------------------------------------------------------- strings
LowerAtom(c) ==
  CASE c = ".RU" -> ".ru"
    [] c = "E" -> "e"
    [] c = "A" -> "a"
    [] c = "B" -> "b"
    [] c = "High Amount" -> "high amount"
    [] c = "Suspicious Email Domain" -> "suspicious email domain"
    [] c = "Unsupported Currency" -> "unsupported currency"
    [] c = "Very High Amount" -> "very high amount"
    [] c = "Malformed Rule" -> "malformed rule"
    [] OTHER -> c

toLowerCase(s) == [i \in 1..Len(s) |-> LowerAtom(s[i])]

toUpperCase(c) ==
  CASE c = "usd" -> "USD"
    [] c = "gbp" -> "GBP"
    [] OTHER -> c

\* String.prototype.endsWith
endsWith(s, suffix) ==
  /\ Len(suffix) <= Len(s)
  /\ SubSeq(s, Len(s) - Len(suffix) + 1, Len(s)) = suffix

RECURSIVE splitFrom(_, _, _, _)
splitFrom(s, i, cur, acc) ==
  IF i > Len(s) THEN Append(acc, cur)
  ELSE IF s[i] = "@" THEN splitFrom(s, i + 1, <<>>, Append(acc, cur))
  ELSE splitFrom(s, i + 1, Append(cur, s[i]), acc)

\* String.prototype.split('@'): the list of segments between the '@'s
split(s) == splitFrom(s, 1, <<>>, <<>>)

\* ------------------------------------------------------------ transactions
Amounts == {100, 6000, 20000}

Currencies == {"USD", "usd", "GBP"}

Sources == {"stripe"}

Emails ==
  { <<"u", "@", "e", ".com">>,
    <<"u", "@", "E", ".RU">>,
    <<"u">>,
    <<"u", "@">>,
    <<"u", "@", "e", ".ru", "@", "e", ".com">> }

Txs == [amount : Amounts, currency : Currencies, source : Sources, email : Emails]

NoTx == [amount |-> 0, currency |-> "", source |-> "", email |-> <<>>]

\* --------------------------------------------------------------- the rules
Rule(l, c, s) == [label |-> l, condition |-> c, score |-> s]

RulePool ==
  { Rule("High Amount", "amount > 5000", Pts(30)),
    Rule("Suspicious Email Domain", "isRiskyDomain(email)", Pts(40)),
    Rule("Unsupported Currency", "!isSupportedCurrency(currency)", Pts(19) + 6),
    Rule("Very High Amount", "amount > 10000", Pts(50)),
    Rule("Malformed Rule", "undefinedVariable > 0", Pts(50)) }

\* ordered rule sets with pairwise different labels
RuleSetsUpTo(n) ==
  UNION { { s \in [1..k -> RulePool] :
              \A i, j \in 1..k : i # j => s[i].label # s[j].label } : k \in 0..n }

AllRuleSets == RuleSetsUpTo(MaxRules)

\* ------------------------------------------------- values of the rule cache
\* FraudService.fraudRules: null, a rule array, or a value that is not an array
Null == [kind |-> "null", rules |-> <<>>]

RulesVal(rs) == [kind |-> "rules", rules |-> rs]

Garbage == [kind |-> "garbage", rules |-> <<>>]

\* content of config/fraudRules.json
SrcMissing == [kind |-> "missing", rules |-> <<>>]

SrcMalformed == [kind |-> "malformed", rules |-> <<>>]

\* parses as JSON, but `rules` is not an array
SrcBadRules == [kind |-> "badrules", rules |-> <<>>]

SrcOk(rs) == [kind |-> "ok", rules |-> rs]

\* outcome of a call: a returned value, or a raised error (value unused)
Ret(v) == [threw |-> FALSE, value |-> v]

Raise(placeholder) == [threw |-> TRUE, value |-> placeholder]

\* ------------------------------------------------------------------- state
VARIABLES
  source,      \* content of config/fraudRules.json on disk
  fraudRules,  \* FraudService.fraudRules, the cached Rule Set
  reads,       \* number of times the rule source was read (readFileSync)
  cfgFiles,    \* ConfigLoader: which of the two list files exist on disk
  cfgCache,    \* ConfigLoader.cache: which configs are cached
  pc,          \* per evaluation: "idle", "awaitLoad", "done"
  tx,          \* per evaluation: chargeData
  evalRules,   \* per evaluation: outcome of `await this.loadFraudRules()`
  result,      \* per evaluation: outcome of calculateRiskScore
  adminRet,    \* last getLoadedRules / reloadRules call and its outcome
  explanationCache, \* LLMService.explanationCache: cache key -> explanation
  epc,         \* per explain call: "idle", "awaitGen" or the return reached
  eargs,       \* per explain call: the arguments of generateFraudExplanation
  eret,        \* per explain call: the explanation returned
  llmAdmin,    \* last clearCache / getCacheSize / getCachedExplanation call
  cpc,         \* per charge: position in ChargeService.processCharge
  creq,        \* per charge: chargeData
  cresp,       \* per charge: the ChargeResponse
  transactions, \* transactionLog: the in-memory array of logged transactions
  globals,     \* process.env as a rule condition can reach it
  stale,       \* history: the explain calls a clearCache has overtaken
  apiKey,      \* whether process.env.OPENAI_API_KEY is set
  hpc,         \* HealthService.performHealthChecks: "idle", "awaitExplain", "done"
  health       \* the OverallHealthStatus returned

\* the state of FraudService and ConfigLoader
fraudVars == <<source, fraudRules, reads, cfgFiles, cfgCache, pc, tx, evalRules,
               result, adminRet, globals>>

\* the state of LLMService
llmVars == <<explanationCache, epc, eargs, eret, llmAdmin, stale>>

\* the state of ChargeService and the transaction log
chargeVars == <<cpc, creq, cresp, transactions>>

\* the state of HealthService and the environment it reads
healthVars == <<apiKey, hpc, health>>

vars == <<source, fraudRules, reads, cfgFiles, cfgCache, pc, tx, evalRules,
          result, adminRet, explanationCache, epc, eargs, eret, llmAdmin,
          cpc, creq, cresp, transactions, globals, stale, apiKey, hpc,
          health>>

\* --------------------------------------------------------------- ConfigLoader
ConfigNames == {"riskyDomains", "currencies"}

\* config/riskyDomains.json
RiskyDomainsFile == << <<".ru">>, <<".xyz">> >>

\* config/currencies.json
CurrenciesFile ==
  << [code |-> "USD", isActive |-> TRUE],
     [code |-> "EUR", isActive |-> TRUE],
     [code |-> "INR", isActive |-> TRUE],
     [code |-> "JPY", isActive |-> FALSE] >>

ConfigContent(name) ==
  IF name = "riskyDomains" THEN RiskyDomainsFile ELSE CurrenciesFile

\* ConfigLoader.loadConfig: cache first, else read the file and cache it.
\* Returns the new cache and the outcome.
loadConfig(name, cache) ==
  IF cache[name] THEN [cache |-> cache, out |-> Ret(ConfigContent(name))]
  ELSE IF cfgFiles[name]
       THEN [cache |-> [cache EXCEPT ![name] = TRUE],
             out |-> Ret(ConfigContent(name))]
       ELSE [cache |-> cache, out |-> Raise(<<>>)]

RECURSIVE activeCodesFrom(_, _)
activeCodesFrom(cs, i) ==
  IF i > Len(cs) THEN <<>>
  ELSE IF cs[i].isActive THEN <<cs[i].code>> \o activeCodesFrom(cs, i + 1)
  ELSE activeCodesFrom(cs, i + 1)

\* ConfigLoader.getActiveCurrencyCodes: filter(isActive).map(code)
getActiveCurrencyCodes(currencies) == activeCodesFrom(currencies, 1)

\* ------------------------------------------------------------ the rule store
\* variant: the cached value is never taken
Truthy_Never(v) == FALSE

\* JavaScript truthiness of FraudService.fraudRules (an empty array is truthy)
Truthy(v) == v.kind # "null"

\* FraudService.loadFraudRules applied to the cache value cur and the source
\* src.  cache: the value of fraudRules afterwards; out: what the caller gets;
\* read: whether the source was read.  `this.fraudRules = config.rules` is
\* executed before the rules are validated by reduce().
loadFraudRules(cur, src) ==
  IF Truthy(cur) THEN [cache |-> cur, out |-> Ret(cur), read |-> FALSE]
  ELSE CASE src.kind = "ok" ->
              [cache |-> RulesVal(src.rules), out |-> Ret(RulesVal(src.rules)),
               read |-> TRUE]
         [] src.kind = "badrules" ->
              [cache |-> Garbage, out |-> Raise(Null), read |-> TRUE]
         [] OTHER ->
              [cache |-> cur, out |-> Raise(Null), read |-> TRUE]

\* ------------------------------------------------------- condition evaluator
\* the helper closure isRiskyDomain of calculateRiskScore
isRiskyDomain(email, riskyDomains) ==
  LET parts == split(toLowerCase(email))
  IN  IF riskyDomains = <<>> THEN Ret(FALSE)
      ELSE IF Len(parts) < 2 THEN Raise(FALSE)
      ELSE Ret(\E i \in 1..Len(riskyDomains) :
                 endsWith(parts[2], toLowerCase(riskyDomains[i])))

\* the helper closure isSupportedCurrency of calculateRiskScore
isSupportedCurrency(currency, supportedCurrencies) ==
  \E i \in 1..Len(supportedCurrencies) :
     supportedCurrencies[i] = toUpperCase(currency)

\* new Function(...keys, `return (${condition});`)(...values): the value of
\* the expression, or the error it raises
runCondition(condition, variables) ==
  CASE condition = "amount > 5000" -> Ret(variables.amount > 5000)
    [] condition = "amount > 10000" -> Ret(variables.amount > 10000)
    [] condition = "isRiskyDomain(email)" ->
         isRiskyDomain(variables.email, variables.riskyDomains)
    [] condition = "!isSupportedCurrency(currency)" ->
         Ret(~isSupportedCurrency(variables.currency,
                                  variables.supportedCurrencies))
    [] condition = "(amount = 20000) > 10000" -> Ret(TRUE)
    [] condition = "process.env.RISK_MODE === 'strict'" ->
         Ret(variables.env = "strict")
    [] condition = "(process.env.RISK_MODE = 'strict')" -> Ret(TRUE)
    [] OTHER -> Raise(FALSE)

\* what the call of the compiled function leaves behind: its parameters
\* (`amount`, ...) and the global object, which the body of a `new Function`
\* reaches by name, after the expression was evaluated
runEffect(condition, variables) ==
  CASE condition = "(amount = 20000) > 10000" ->
         [variables EXCEPT !.amount = 20000]
    [] condition = "(process.env.RISK_MODE = 'strict')" ->
         [variables EXCEPT !.env = "strict"]
    [] OTHER -> variables

\* variant: the next call sees the parameters as the last call left them
nextBindings_Shared(variables, after) == after

\* evaluator(...Object.values(variables)): every call binds its parameters
\* anew to the values of `variables`, which no call can reach; the global
\* object is the one the last call left
nextBindings(variables, after) == [variables EXCEPT !.env = after.env]

\* variant: the error of a condition is passed on
conditionCatch_Rethrow(out) == out

\* the catch of evaluateCondition: an error counts as "not triggered"
conditionCatch(out) == IF out.threw THEN Ret(FALSE) ELSE out

\* FraudService.evaluateCondition
evaluateCondition(condition, variables) ==
  conditionCatch(runCondition(condition, variables))

\* ------------------------------------------------------------ scoring engine
NoResult ==
  [riskScore |-> Frac(0, 1), riskPercentage |-> 0, isHighRisk |-> FALSE,
   triggeredRules |-> <<>>]

\* the safe defaults returned by the catch of calculateRiskScore
SafeDefault ==
  [riskScore |-> Frac(0, 1), riskPercentage |-> 0, isHighRisk |-> FALSE,
   triggeredRules |-> <<>>]

\* Math.round of total / ScoreScale: floor(x + 1/2)
MathRound(total) == (2 * total + ScoreScale) \div (2 * ScoreScale)

Min(a, b) == IF a <= b THEN a ELSE b

\* variant: the label of a triggered rule is put in front of the list
RECURSIVE evaluateRules_Prepend(_, _, _, _)
evaluateRules_Prepend(rules, i, variables, acc) ==
  IF i > Len(rules) THEN acc
  ELSE LET isTriggered == conditionCatch(runCondition(rules[i].condition, variables))
           next == nextBindings(variables,
                                runEffect(rules[i].condition, variables))
       IN  IF isTriggered.threw THEN [acc EXCEPT !.threw = TRUE]
           ELSE IF isTriggered.value
           THEN evaluateRules_Prepend(rules, i + 1, next,
                  [acc EXCEPT !.env = next.env,
                              !.total = acc.total + rules[i].score,
                              !.triggered = <<rules[i].label>> \o acc.triggered])
           ELSE evaluateRules_Prepend(rules, i + 1, next,
                  [acc EXCEPT !.env = next.env])

\* the loop over the rules: acc.total is the running `riskScore` (in score
\* units), acc.triggered the list `triggeredRules`; an error raised by
\* evaluateCondition would leave the loop (acc.threw)
RECURSIVE evaluateRules(_, _, _, _)
evaluateRules(rules, i, variables, acc) ==
  IF i > Len(rules) THEN acc
  ELSE LET isTriggered == evaluateCondition(rules[i].condition, variables)
           next == nextBindings(variables,
                                runEffect(rules[i].condition, variables))
       IN  IF isTriggered.threw THEN [acc EXCEPT !.threw = TRUE]
           ELSE IF isTriggered.value
           THEN evaluateRules(rules, i + 1, next,
                  [acc EXCEPT !.env = next.env,
                              !.total = acc.total + rules[i].score,
                              !.triggered = Append(acc.triggered, rules[i].label)])
           ELSE evaluateRules(rules, i + 1, next,
                  [acc EXCEPT !.env = next.env])

\* variant: the percentage is not capped
capPercentage_NoCap(total) == MathRound(total)

\* const riskPercentage = Math.min(Math.round(riskScore), 100)
capPercentage(total) == Min(MathRound(total), 100)

\* variant: riskScore stays the sum of the scores, brought to the 0..1 scale
recomputeScore_KeepSum(total, riskPercentage) == Frac(total, 100 * ScoreScale)

\* riskScore = riskPercentage / 100
recomputeScore(total, riskPercentage) == Frac(riskPercentage, 100)

\* variant: the sum of the scores is classified, not the recomputed riskScore
classify_Sum(total, riskScore) ==
  FracGeq(Frac(total, 100 * ScoreScale), HIGH_RISK_THRESHOLD)

\* const isHighRisk = riskScore >= FRAUD_SCORING.HIGH_RISK_THRESHOLD
classify(total, riskScore) == FracGeq(riskScore, HIGH_RISK_THRESHOLD)

\* the part of the try block after the configuration is loaded: the variables
\* and the loop.  `env` is process.env as the compiled conditions find it.
runLoop(rules, chargeData, riskyDomains, supportedCurrencies, env) ==
  LET variables == [amount |-> chargeData.amount,
                    currency |-> chargeData.currency,
                    source |-> chargeData.source,
                    email |-> chargeData.email,
                    riskyDomains |-> riskyDomains,
                    supportedCurrencies |-> supportedCurrencies,
                    env |-> env]
  IN  evaluateRules(rules, 1, variables,
                    [threw |-> FALSE, total |-> 0, triggered |-> <<>>,
                     env |-> env])

\* the try block from the variables on, as far as the caller sees it: the
\* loop, the percentage, the classification.  `for (const rule of rules)`
\* raises when the cached value is not iterable.
scoreRules(rules, chargeData, riskyDomains, supportedCurrencies, env) ==
  IF rules.kind # "rules" THEN Raise(NoResult)
  ELSE
    LET acc == runLoop(rules.rules, chargeData, riskyDomains,
                       supportedCurrencies, env)
        riskPercentage == capPercentage(acc.total)
        riskScore == recomputeScore(acc.total, riskPercentage)
    IN  IF acc.threw THEN Raise(NoResult) ELSE
        Ret([riskScore |-> riskScore,
             riskPercentage |-> riskPercentage,
             isHighRisk |-> classify(acc.total, riskScore),
             triggeredRules |-> acc.triggered])

\* the try block of calculateRiskScore from line 94 on, given the outcome of
\* the load: the new ConfigLoader cache, the outcome of the block, and
\* process.env as the conditions that ran have left it
tryBlock(loaded, rules, chargeData, cache, env) ==
  IF loaded.threw THEN [cache |-> cache, out |-> Raise(NoResult), env |-> env]
  ELSE
    LET rd == loadConfig("riskyDomains", cache)
        cu == loadConfig("currencies", rd.cache)
    IN  IF rd.out.threw
        THEN [cache |-> rd.cache, out |-> Raise(NoResult), env |-> env]
        ELSE IF cu.out.threw
        THEN [cache |-> cu.cache, out |-> Raise(NoResult), env |-> env]
        ELSE [cache |-> cu.cache,
              out |-> scoreRules(rules, chargeData, rd.out.value,
                                 getActiveCurrencyCodes(cu.out.value), env),
              env |-> IF rules.kind # "rules" THEN env
                      ELSE runLoop(rules.rules, chargeData, rd.out.value,
                                   getActiveCurrencyCodes(cu.out.value),
                                   env).env]

\* variant: the error leaves calculateRiskScore
scoringCatch_Rethrow(out) == out

\* the catch of calculateRiskScore: any error becomes the safe defaults
scoringCatch(out) == IF out.threw THEN Ret(SafeDefault) ELSE out

\* variant: the loop reads the shared cache when it runs
loopRules_Shared(p) == fraudRules

\* the rules an evaluation iterates over: its own `const rules`
loopRules(p) == evalRules[p].value

\* --------------------------------------------------------------- LLMService
\* order of the atoms that occur in rule labels, as Array.prototype.sort
\* orders the strings
AtomRank(a) ==
  CASE a = "A" -> 1
    [] a = "B" -> 2
    [] a = "High Amount" -> 3
    [] a = "Malformed Rule" -> 4
    [] a = "Suspicious Email Domain" -> 5
    [] a = "Unsupported Currency" -> 6
    [] a = "Very High Amount" -> 7
    [] OTHER -> 8

\* s < t as strings
RECURSIVE StrLess(_, _)
StrLess(s, t) ==
  IF t = <<>> THEN FALSE
  ELSE IF s = <<>> THEN TRUE
  ELSE IF AtomRank(Head(s)) < AtomRank(Head(t)) THEN TRUE
  ELSE IF AtomRank(Head(s)) > AtomRank(Head(t)) THEN FALSE
  ELSE StrLess(Tail(s), Tail(t))

RECURSIVE insertSorted(_, _)
insertSorted(x, sorted) ==
  IF sorted = <<>> THEN <<x>>
  ELSE IF StrLess(x, Head(sorted)) THEN <<x>> \o sorted
  ELSE <<Head(sorted)>> \o insertSorted(x, Tail(sorted))

RECURSIVE sortFrom(_, _)
sortFrom(list, i) ==
  IF i > Len(list) THEN <<>>
  ELSE insertSorted(list[i], sortFrom(list, i + 1))

\* variant: the rules are not sorted
sortRules_Unsorted(triggeredRules) == triggeredRules

\* [...triggeredRules].sort()
sortRules(triggeredRules) == sortFrom(triggeredRules, 1)

\* Array.prototype.join: the strings of the list with sep between them
RECURSIVE join(_, _)
join(list, sep) ==
  IF list = <<>> THEN <<>>
  ELSE IF Len(list) = 1 THEN Head(list)
  ELSE Head(list) \o sep \o join(Tail(list), sep)

\* LLMService.generateCacheKey:
\* `${amount}-${currency}-${email}-${sortedRules.join('|')}`
generateCacheKey(amount, currency, email, triggeredRules) ==
  <<ToString(amount), "-", currency, "-">> \o email \o <<"-">>
    \o join(sortRules(triggeredRules), <<"|">>)

\* an explanation text: one written by the provider, or one of the two
\* templates of generateFallbackExplanation
Generated(content) ==
  [kind |-> "generated", content |-> content, pct |-> 0, factors |-> <<>>]

\* Math.round(riskScore * 100)
roundPercent(riskScore) ==
  (200 * riskScore.num + riskScore.den) \div (2 * riskScore.den)

\* LLMService.generateFallbackExplanation
generateFallbackExplanation(riskScore, triggeredRules) ==
  IF Len(triggeredRules) = 0
  THEN [kind |-> "safe", content |-> "", pct |-> roundPercent(riskScore),
        factors |-> <<>>]
  ELSE [kind |-> "flagged", content |-> "", pct |-> roundPercent(riskScore),
        factors |-> toLowerCase(join(triggeredRules, <<", ">>))]

NoText == [kind |-> "none", content |-> "", pct |-> 0, factors |-> <<>>]

\* what openai.chat.completions.create can do: answer with a text, answer
\* without content, or fail
GenOutcomes ==
  { [ok |-> TRUE, content |-> "generated text"],
    [ok |-> TRUE, content |-> ""], [ok |-> FALSE, content |-> ""] }

\* generatedExplanation || this.generateFallbackExplanation(...)
finalExplanation(content, riskScore, triggeredRules) ==
  IF content # "" THEN Generated(content)
  ELSE generateFallbackExplanation(riskScore, triggeredRules)

\* new Map()
EmptyCache == [k \in {} |-> NoText]

\* variant: the cache is never hit
cacheHas_Never(cache, key) == FALSE

\* this.explanationCache.has(cacheKey)
cacheHas(cache, key) == key \in DOMAIN cache

\* variant: the first explanation stored under a key stays
cacheSet_KeepFirst(cache, key, text) ==
  IF key \in DOMAIN cache THEN cache
  ELSE [k \in DOMAIN cache \cup {key} |-> IF k = key THEN text ELSE cache[k]]

\* variant: the cache holds one entry, storing evicts the others
cacheSet_Evict(cache, key, text) == [k \in {key} |-> text]

\* this.explanationCache.set(cacheKey, text)
cacheSet(cache, key, text) ==
  [k \in DOMAIN cache \cup {key} |-> IF k = key THEN text ELSE cache[k]]

\* variant: the fallback is returned but not stored
cacheFallback_Skip(cache, key, fallback) == cache

\* the catch of generateFraudExplanation stores the fallback
cacheFallback(cache, key, fallback) == cacheSet(cache, key, fallback)

\* variant: clearing leaves the entries in place
cacheClear_Keep(cache) == cache

\* this.explanationCache.clear()
cacheClear(cache) == EmptyCache

NoArgs ==
  [amount |-> 0, currency |-> "", email |-> <<>>, riskScore |-> Frac(0, 1),
   triggeredRules |-> <<>>]

NoLlmAdmin == [op |-> "none", key |-> <<>>, size |-> 0, found |-> FALSE,
               text |-> NoText]

NoReq == [amount |-> 0, currency |-> "", source |-> "", email |-> <<>>]

\* a ChargeResponse; hasData is FALSE for data: null
NoResp ==
  [success |-> FALSE, message |-> "", hasData |-> FALSE, transactionId |-> 0,
   amount |-> 0, currency |-> "", status |-> "", fraudScore |-> 0,
   triggeredRules |-> <<>>, llmExplanation |-> NoText]

\* process.env.RISK_MODE, a variable of the environment no code sets
EnvUnset == "unset"

\* the OverallHealthStatus before performHealthChecks has run
NoHealth == [overall |-> "", status |-> "", message |-> ""]

InitServices ==
  /\ explanationCache = EmptyCache
  /\ epc = [p \in Callers |-> "idle"]
  /\ eargs = [p \in Callers |-> NoArgs]
  /\ eret = [p \in Callers |-> NoText]
  /\ stale = [p \in Callers |-> FALSE]
  /\ llmAdmin = NoLlmAdmin
  /\ cpc = [p \in Evals |-> "idle"]
  /\ creq = [p \in Evals |-> NoReq]
  /\ cresp = [p \in Evals |-> NoResp]
  /\ transactions = <<>>
  /\ globals = EnvUnset
  /\ hpc = "idle"
  /\ health = NoHealth

\* the cache key of the call p is making
KeyOf(p) ==
  generateCacheKey(eargs[p].amount, eargs[p].currency, eargs[p].email,
                   eargs[p].triggeredRules)

\* ------------------------------------------------------------------ actions
NoAdmin == [op |-> "none", out |-> Ret(Null)]

InitState ==
  /\ fraudRules = Null
  /\ reads = 0
  /\ cfgFiles \in [ConfigNames -> BOOLEAN]
  /\ cfgCache = [n \in ConfigNames |-> FALSE]
  /\ pc = [p \in Evals |-> "idle"]
  /\ tx = [p \in Evals |-> NoTx]
  /\ evalRules = [p \in Evals |-> Ret(Null)]
  /\ result = [p \in Evals |-> Ret(NoResult)]
  /\ adminRet = NoAdmin
  /\ InitServices

\* the state after construction with OPENAI_API_KEY set
InitCommon ==
  /\ InitState
  /\ apiKey = TRUE

\* the rule sources the store is exercised with
SetA ==
  << Rule("High Amount", "amount > 5000", Pts(30)),
     Rule("Suspicious Email Domain", "isRiskyDomain(email)", Pts(40)) >>

SetB ==
  << Rule("Malformed Rule", "undefinedVariable > 0", Pts(50)),
     Rule("Very High Amount", "amount > 10000", Pts(50)),
     Rule("Unsupported Currency", "!isSupportedCurrency(currency)", Pts(19) + 6) >>

StoreSources == {SrcMissing, SrcMalformed, SrcBadRules, SrcOk(SetA), SrcOk(SetB)}

StoreTxs ==
  { [amount |-> 20000, currency |-> "GBP", source |-> "stripe",
     email |-> <<"u", "@", "E", ".RU">>],
    [amount |-> 100, currency |-> "USD", source |-> "stripe",
     email |-> <<"u", "@", "e", ".com">>] }

Init ==
  /\ source \in StoreSources
  /\ InitCommon

\* calculateRiskScore is called with chargeData and runs up to its first
\* await: loadFraudRules executes, its outcome is awaited
callScore(p, chargeData) ==
  LET l == loadFraudRules(fraudRules, source) IN
  /\ pc[p] = "idle"
  /\ l.read => reads < MaxReads
  /\ fraudRules' = l.cache
  /\ reads' = IF l.read THEN reads + 1 ELSE reads
  /\ evalRules' = [evalRules EXCEPT ![p] = l.out]
  /\ tx' = [tx EXCEPT ![p] = chargeData]
  /\ pc' = [pc EXCEPT ![p] = "awaitLoad"]
  /\ UNCHANGED <<source, cfgFiles, cfgCache, result, adminRet, globals>>

\* calculateRiskScore called on its own
Call(p, chargeData) ==
  /\ callScore(p, chargeData)
  /\ UNCHANGED <<llmVars, chargeVars, healthVars>>

\* the evaluation resumes after the await and runs to its return
resumeScore(p) ==
  LET t == tryBlock(evalRules[p], loopRules(p), tx[p], cfgCache, globals) IN
  /\ pc[p] = "awaitLoad"
  /\ cfgCache' = t.cache
  /\ result' = [result EXCEPT ![p] = scoringCatch(t.out)]
  /\ pc' = [pc EXCEPT ![p] = "done"]
  /\ globals' = t.env
  /\ UNCHANGED <<source, fraudRules, reads, cfgFiles, tx, evalRules, adminRet>>

\* calculateRiskScore called on its own, after its await
Resume(p) ==
  /\ resumeScore(p)
  /\ UNCHANGED <<llmVars, chargeVars, healthVars>>

\* the caller takes the result
Return(p) ==
  /\ pc[p] = "done"
  /\ pc' = [pc EXCEPT ![p] = "idle"]
  /\ tx' = [tx EXCEPT ![p] = NoTx]
  /\ evalRules' = [evalRules EXCEPT ![p] = Ret(Null)]
  /\ result' = [result EXCEPT ![p] = Ret(NoResult)]
  /\ UNCHANGED <<source, fraudRules, reads, cfgFiles, cfgCache, adminRet,
                 globals>>
  /\ UNCHANGED <<llmVars, chargeVars, healthVars>>

\* FraudService.getLoadedRules
GetLoadedRules ==
  LET l == loadFraudRules(fraudRules, source) IN
  /\ l.read => reads < MaxReads
  /\ fraudRules' = l.cache
  /\ reads' = IF l.read THEN reads + 1 ELSE reads
  /\ adminRet' = [op |-> "getLoadedRules", out |-> l.out]
  /\ UNCHANGED <<source, cfgFiles, cfgCache, pc, tx, evalRules, result,
                 globals>>
  /\ UNCHANGED <<llmVars, chargeVars, healthVars>>

\* variant: reloadRules leaves the cache in place
discardCache_Keep(cur) == cur

\* what reloadRules assigns to the cache before it loads
discardCache(cur) == Null

\* FraudService.reloadRules
ReloadRules ==
  LET l == loadFraudRules(discardCache(fraudRules), source) IN
  /\ l.read => reads < MaxReads
  /\ fraudRules' = l.cache
  /\ reads' = IF l.read THEN reads + 1 ELSE reads
  /\ adminRet' = [op |-> "reloadRules",
                  out |-> IF l.out.threw THEN l.out ELSE Ret(Null)]
  /\ UNCHANGED <<source, cfgFiles, cfgCache, pc, tx, evalRules, result,
                 globals>>
  /\ UNCHANGED <<llmVars, chargeVars, healthVars>>

\* the operator edits, removes or corrupts config/fraudRules.json
SourceChange ==
  /\ source' \in StoreSources \ {source}
  /\ UNCHANGED <<fraudRules, reads, cfgFiles, cfgCache, pc, tx, evalRules,
                 result, adminRet, globals>>
  /\ UNCHANGED <<llmVars, chargeVars, healthVars>>

Next ==
  \/ \E p \in Evals : \E t \in StoreTxs : Call(p, t)
  \/ \E p \in Evals : Resume(p)
  \/ \E p \in Evals : Return(p)
  \/ GetLoadedRules
  \/ ReloadRules
  \/ SourceChange

Spec == Init /\ [][Next]_vars

\* ------------------------------------------------------- LLMService actions
LabelA == <<"A">>
LabelB == <<"B">>
LabelAB == <<"A", "|", "B">>

Args(amount, currency, email, riskScore, triggeredRules) ==
  [amount |-> amount, currency |-> currency, email |-> email,
   riskScore |-> riskScore, triggeredRules |-> triggeredRules]

\* the calls made while calls overlap
LLMArgs ==
  { Args(100, "USD", <<"u", "@", "e", ".com">>, Frac(7, 10), <<LabelA, LabelB>>),
    Args(100, "USD", <<"u", "@", "e", ".com">>, Frac(7, 10), <<LabelB, LabelA>>),
    Args(6000, "USD", <<"u", "@", "e", ".com">>, Frac(3, 10), <<LabelA>>) }

\* the calls made one after the other: each component of the fingerprint
\* varies
SeqArgs ==
  LLMArgs \cup
  { Args(100, "GBP", <<"u", "@", "e", ".com">>, Frac(7, 10), <<LabelA, LabelB>>),
    Args(100, "USD", <<"u", "@", "e", ".ru">>, Frac(7, 10), <<LabelA, LabelB>>),
    Args(100, "USD", <<"u", "@", "e", ".com">>, Frac(3, 10), <<LabelB, LabelA>>),
    Args(100, "USD", <<"u", "@", "e", ".com">>, Frac(7, 10), <<LabelAB>>),
    Args(100, "USD", <<"u", "@", "e", ".com">>, Frac(1, 10), <<>>) }

KeyOfArgs(a) ==
  generateCacheKey(a.amount, a.currency, a.email, a.triggeredRules)

\* the keys an administrator looks up: those of the calls and one never stored
PeekKeys == { KeyOfArgs(a) : a \in LLMArgs } \cup { <<"no-such-key">> }

\* the three returns of generateFraudExplanation: of the cached text, of the
\* text stored after the generator answered, of the fallback in the catch
Returning == {"returnCached", "returnFinal", "returnFallback"}

\* generateFraudExplanation up to its await: cache lookup, then either the
\* cached text is returned or the generator is invoked
callExplain(p, a) ==
  /\ epc[p] = "idle"
  /\ eargs' = [eargs EXCEPT ![p] = a]
  /\ IF cacheHas(explanationCache, KeyOfArgs(a))
     THEN /\ eret' = [eret EXCEPT ![p] = explanationCache[KeyOfArgs(a)]]
          /\ epc' = [epc EXCEPT ![p] = "returnCached"]
     ELSE /\ eret' = [eret EXCEPT ![p] = NoText]
          /\ epc' = [epc EXCEPT ![p] = "awaitGen"]
  /\ stale' = [stale EXCEPT ![p] = FALSE]
  /\ UNCHANGED <<explanationCache, llmAdmin>>

\* generateFraudExplanation called on its own
Explain(p, a) ==
  /\ callExplain(p, a)
  /\ UNCHANGED <<fraudVars, chargeVars, healthVars>>

\* generateFraudExplanation after its await: the generator answered (the text
\* or the fallback is stored and returned) or failed (the catch stores and
\* returns the fallback)
GenReturn(p, o) ==
  /\ epc[p] = "awaitGen"
  /\ LET a == eargs[p]
         text == IF o.ok
                 THEN finalExplanation(o.content, a.riskScore, a.triggeredRules)
                 ELSE generateFallbackExplanation(a.riskScore, a.triggeredRules)
     IN /\ explanationCache' =
             IF o.ok THEN cacheSet(explanationCache, KeyOf(p), text)
             ELSE cacheFallback(explanationCache, KeyOf(p), text)
        /\ eret' = [eret EXCEPT ![p] = text]
  /\ epc' = [epc EXCEPT ![p] = IF o.ok THEN "returnFinal" ELSE "returnFallback"]
  /\ stale' = [stale EXCEPT ![p] = FALSE]
  /\ UNCHANGED <<eargs, llmAdmin>>
  /\ UNCHANGED <<fraudVars, chargeVars, healthVars>>

\* the caller takes the explanation
ExplainReturn(p) ==
  /\ epc[p] \in Returning
  /\ epc' = [epc EXCEPT ![p] = "idle"]
  /\ eargs' = [eargs EXCEPT ![p] = NoArgs]
  /\ eret' = [eret EXCEPT ![p] = NoText]
  /\ stale' = [stale EXCEPT ![p] = FALSE]
  /\ UNCHANGED <<explanationCache, llmAdmin>>
  /\ UNCHANGED <<fraudVars, chargeVars, healthVars>>

\* LLMService.clearCache
ClearCache ==
  /\ explanationCache' = cacheClear(explanationCache)
  /\ llmAdmin' = [NoLlmAdmin EXCEPT !.op = "clearCache"]
  /\ stale' = [p \in Callers |-> IF epc[p] = "awaitGen" THEN TRUE ELSE stale[p]]
  /\ UNCHANGED <<epc, eargs, eret>>
  /\ UNCHANGED <<fraudVars, chargeVars, healthVars>>

\* LLMService.getCacheSize
GetCacheSize ==
  /\ llmAdmin' = [NoLlmAdmin EXCEPT !.op = "getCacheSize",
                    !.size = Cardinality(DOMAIN explanationCache)]
  /\ UNCHANGED <<explanationCache, epc, eargs, eret, stale>>
  /\ UNCHANGED <<fraudVars, chargeVars, healthVars>>

\* LLMService.getCachedExplanation: Map.get, undefined for an absent key
GetCachedExplanation(key) ==
  /\ llmAdmin' = [NoLlmAdmin EXCEPT !.op = "getCachedExplanation",
                    !.key = key,
                    !.found = (key \in DOMAIN explanationCache),
                    !.text = IF key \in DOMAIN explanationCache
                             THEN explanationCache[key] ELSE NoText]
  /\ UNCHANGED <<explanationCache, epc, eargs, eret, stale>>
  /\ UNCHANGED <<fraudVars, chargeVars, healthVars>>

\* the explanation service on its own: the rule source and the configuration
\* files are in place and stay as they are
InitLLM ==
  /\ source = SrcOk(SetA)
  /\ InitCommon
  /\ cfgFiles = [n \in ConfigNames |-> TRUE]

\* explanation calls that overlap, and the cache administration
NextLLM ==
  \/ \E p \in Evals, a \in LLMArgs : Explain(p, a)
  \/ \E p \in Evals, o \in GenOutcomes : GenReturn(p, o)
  \/ \E p \in Evals : ExplainReturn(p)
  \/ ClearCache
  \/ GetCacheSize
  \/ \E key \in PeekKeys : GetCachedExplanation(key)

SpecLLM == InitLLM /\ [][NextLLM]_vars

\* explanation calls made one after the other, one per caller, no clear
NextSeq ==
  \/ \E p \in Evals, a \in SeqArgs :
       /\ \A q \in Evals : epc[q] # "awaitGen"
       /\ Explain(p, a)
  \/ \E p \in Evals, o \in GenOutcomes : GenReturn(p, o)

SpecSeq == InitLLM /\ [][NextSeq]_vars

\* ------------------------------------------------------- ValidationService
Valid == [isValid |-> TRUE, error |-> ""]

Invalid(error) == [isValid |-> FALSE, error |-> error]

\* CURRENCY_FORMAT.PATTERN /^[A-Z]{3}$/ on the currency strings of the model
isValidCurrency(currency) ==
  CASE currency = "USD" -> TRUE
    [] currency = "GBP" -> TRUE
    [] currency = "usd" -> FALSE
    [] currency = "gbp" -> FALSE
    [] OTHER -> FALSE

\* VALID_PAYMENT_SOURCES.includes(source)
isValidSource(src) == src \in {"stripe", "paypal"}

\* an atom that begins with a dot and has text after it
IsDotAtom(c) == c \in {".com", ".ru", ".RU", ".xyz"}

\* EMAIL_FORMAT.PATTERN /^[^\s@]+@[^\s@]+\.[^\s@]+$/: one '@', text before
\* it, and after it text, a dot and text
isValidEmail(email) ==
  LET parts == split(email) IN
  /\ Len(parts) = 2
  /\ Len(parts[1]) >= 1
  /\ \E i \in 2..Len(parts[2]) : IsDotAtom(parts[2][i])

validateAmount(amount) ==
  IF amount <= 0 THEN Invalid("Amount must be a positive number") ELSE Valid

validateCurrency(currency) ==
  IF ~isValidCurrency(currency)
  THEN Invalid("Currency must be a 3-letter uppercase string (e.g., 'USD')")
  ELSE Valid

validateSource(src) ==
  IF ~isValidSource(src)
  THEN Invalid("Source must be either 'stripe' or 'paypal'")
  ELSE Valid

validateEmail(email) ==
  IF ~isValidEmail(email) THEN Invalid("Email must be a valid email format")
  ELSE Valid

\* ------------------------------------------------------------- ChargeService
\* variant: the email is checked first
validations_EmailFirst(chargeData) ==
  << validateEmail(chargeData.email), validateAmount(chargeData.amount),
     validateCurrency(chargeData.currency), validateSource(chargeData.source) >>

\* the checks of processCharge in the order it makes them
validations(chargeData) ==
  << validateAmount(chargeData.amount), validateCurrency(chargeData.currency),
     validateSource(chargeData.source), validateEmail(chargeData.email) >>

\* the first check that fails, or Valid
RECURSIVE firstFailure(_)
firstFailure(checks) ==
  IF checks = <<>> THEN Valid
  ELSE IF ~Head(checks).isValid THEN Head(checks)
  ELSE firstFailure(Tail(checks))

\* the response to a request that fails a check
Rejected(error) == [NoResp EXCEPT !.message = error]

\* the response of the catch of processCharge
InternalError == [NoResp EXCEPT !.message = "Internal server error"]

\* the labels of an assessment as the strings handed to the explanation
LabelsOf(triggeredRules) ==
  [i \in 1..Len(triggeredRules) |-> <<triggeredRules[i]>>]

\* variant: a score of exactly one half is approved
decide_Strict(fraudScore) ==
  IF FracGeq(fraudScore, Frac(1, 2)) /\ ~FracGeq(Frac(1, 2), fraudScore)
  THEN "blocked" ELSE "approved"

\* fraudResult.fraudScore >= 0.5 ? 'blocked' : 'approved'
decide(fraudScore) ==
  IF FracGeq(fraudScore, Frac(1, 2)) THEN "blocked" ELSE "approved"

\* logTransaction: the entry pushed for a transaction; the position in the
\* log stands for the fresh uuid
logEntry(log, chargeData, fraudScore, decision, llmExplanation) ==
  [transactionId |-> Len(log) + 1, amount |-> chargeData.amount,
   currency |-> chargeData.currency, source |-> chargeData.source,
   email |-> chargeData.email, fraudScore |-> fraudScore,
   decision |-> decision, llmExplanation |-> llmExplanation]

\* transactions.push(transaction)
logTransaction(log, entry) == Append(log, entry)

\* the response to a charge that was scored and explained
chargeResponse(entry, fraudResult, decision) ==
  [success |-> ~fraudResult.isHighRisk,
   message |-> IF fraudResult.isHighRisk
               THEN "Charge declined due to high fraud risk"
               ELSE "Charge processed successfully",
   hasData |-> TRUE, transactionId |-> entry.transactionId,
   amount |-> entry.amount,
   currency |-> entry.currency,
   status |-> IF decision = "blocked" THEN "declined" ELSE "safe",
   fraudScore |-> roundPercent(fraudResult.riskScore),
   triggeredRules |-> fraudResult.triggeredRules,
   llmExplanation |-> entry.llmExplanation]

\* the charge requests
ChargeReqs ==
  { [amount |-> 100, currency |-> "USD", source |-> "stripe",
     email |-> <<"u", "@", "e", ".com">>],
    [amount |-> 20000, currency |-> "USD", source |-> "paypal",
     email |-> <<"u", "@", "e", ".ru">>],
    [amount |-> -50, currency |-> "usd", source |-> "stripe",
     email |-> <<"u", "@", "e", ".com">>],
    [amount |-> 100, currency |-> "usd", source |-> "square",
     email |-> <<"u", "@", "e", ".com">>],
    [amount |-> 100, currency |-> "USD", source |-> "square",
     email |-> <<"u">>],
    [amount |-> 100, currency |-> "USD", source |-> "stripe",
     email |-> <<"u", "@", ".com">>] }

\* processCharge up to its first await: the checks, then the call of the
\* scoring
ChargeStart(p, chargeData) ==
  LET v == firstFailure(validations(chargeData)) IN
  /\ cpc[p] = "idle"
  /\ creq' = [creq EXCEPT ![p] = chargeData]
  /\ IF ~v.isValid
     THEN /\ cresp' = [cresp EXCEPT ![p] = Rejected(v.error)]
          /\ cpc' = [cpc EXCEPT ![p] = "responded"]
          /\ UNCHANGED <<fraudVars, llmVars, transactions>>
     ELSE /\ callScore(p, chargeData)
          /\ cpc' = [cpc EXCEPT ![p] = "awaitScore"]
          /\ UNCHANGED <<llmVars, cresp, transactions>>
  /\ UNCHANGED healthVars

\* the scoring completes and processCharge goes on to its second await: the
\* call of the explanation
ChargeScored(p) ==
  /\ cpc[p] = "awaitScore"
  /\ resumeScore(p)
  /\ IF result'[p].threw
     THEN /\ cresp' = [cresp EXCEPT ![p] = InternalError]
          /\ cpc' = [cpc EXCEPT ![p] = "responded"]
          /\ UNCHANGED <<llmVars, creq, transactions>>
     ELSE /\ callExplain(p, Args(creq[p].amount, creq[p].currency,
                                 creq[p].email, result'[p].value.riskScore,
                                 LabelsOf(result'[p].value.triggeredRules)))
          /\ cpc' = [cpc EXCEPT ![p] = "awaitExplain"]
          /\ UNCHANGED <<creq, cresp, transactions>>
  /\ UNCHANGED healthVars

\* the explanation has returned: decision, log entry and response
ChargeFinish(p) ==
  LET fraudResult == result[p].value
      decision == decide(fraudResult.riskScore)
      entry == logEntry(transactions, creq[p], fraudResult.riskScore, decision,
                        eret[p])
  IN  /\ cpc[p] = "awaitExplain"
      /\ epc[p] \in Returning
      /\ transactions' = logTransaction(transactions, entry)
      /\ cresp' = [cresp EXCEPT
                     ![p] = chargeResponse(entry, fraudResult, decision)]
      /\ cpc' = [cpc EXCEPT ![p] = "responded"]
      /\ UNCHANGED <<fraudVars, llmVars, creq, healthVars>>

NoSuchKey == <<"no-such-key">>

\* the rule source is in place or missing, the list files are in place
InitCharge ==
  /\ source \in {SrcOk(SetA), SrcOk(SetB), SrcMissing}
  /\ InitCommon
  /\ cfgFiles = [n \in ConfigNames |-> TRUE]

\* charges, one per caller, and the cache administration
NextCharge ==
  \/ \E p \in Evals, chargeData \in ChargeReqs : ChargeStart(p, chargeData)
  \/ \E p \in Evals : ChargeScored(p)
  \/ \E p \in Evals, o \in GenOutcomes : cpc[p] = "awaitExplain" /\ GenReturn(p, o)
  \/ \E p \in Evals : ChargeFinish(p)
  \/ ClearCache
  \/ GetCacheSize
  \/ \E key \in DOMAIN explanationCache \cup {NoSuchKey} :
       GetCachedExplanation(key)

SpecCharge == InitCharge /\ [][NextCharge]_vars

\* ------------------------------------------------------------ HealthService
\* the arguments of the test request of testOpenAIConnection
ProbeArgs ==
  Args(100, "USD", <<"test", "@", "example", ".com">>, Frac(0, 1), <<>>)

\* testExplanation && testExplanation.length > 0
nonEmpty(text) ==
  /\ text.kind # "none"
  /\ text.kind = "generated" => text.content # ""

\* the result of performHealthChecks with its one check
Unhealthy(message) ==
  [overall |-> "unhealthy", status |-> "unhealthy", message |-> message]

Healthy ==
  [overall |-> "healthy", status |-> "healthy",
   message |-> "Successfully connected to OpenAI API"]

\* performHealthChecks up to the await in testOpenAIConnection: without a key
\* the check answers at once, with a key it calls generateFraudExplanation
HealthStart ==
  /\ hpc = "idle"
  /\ IF ~apiKey
     THEN /\ health' = Unhealthy("OPENAI_API_KEY environment variable is not set")
          /\ hpc' = "done"
          /\ UNCHANGED llmVars
     ELSE /\ callExplain(Prober, ProbeArgs)
          /\ hpc' = "awaitExplain"
          /\ health' = health
  /\ UNCHANGED <<apiKey, fraudVars, chargeVars>>

\* the explanation has returned: the check and the overall status
HealthFinish ==
  /\ hpc = "awaitExplain"
  /\ epc[Prober] \in Returning
  /\ health' = IF nonEmpty(eret[Prober]) THEN Healthy
               ELSE Unhealthy("OpenAI API returned empty response")
  /\ hpc' = "done"
  /\ UNCHANGED <<apiKey, fraudVars, llmVars, chargeVars>>

\* the explanation calls made once the server listens
HealthArgs ==
  { Args(100, "USD", <<"test", "@", "example", ".com">>, Frac(0, 1), <<>>),
    Args(100, "USD", <<"u", "@", "e", ".com">>, Frac(0, 1), <<>>) }

\* the rule source and the list files are in place; the key is set or not
InitHealth ==
  /\ source = SrcOk(SetA)
  /\ InitState
  /\ cfgFiles = [n \in ConfigNames |-> TRUE]
  /\ apiKey \in BOOLEAN

\* initializeServer: the health check runs, then the server takes requests;
\* the provider answers only when the key is set
NextHealth ==
  \/ HealthStart
  \/ \E o \in GenOutcomes : GenReturn(Prober, o)
  \/ HealthFinish
  \/ \E p \in Evals, a \in HealthArgs : hpc = "done" /\ Explain(p, a)
  \/ \E p \in Evals, o \in GenOutcomes : (o.ok => apiKey) /\ GenReturn(p, o)
  \/ \E p \in Evals : ExplainReturn(p)
  \/ hpc = "done" /\ ClearCache

SpecHealth == InitHealth /\ [][NextHealth]_vars

\* ------------------------------------------ the scoring function on its own
\* one evaluation at a time, over every rule set up to MaxRules rules and
\* every transaction
InitScore ==
  /\ source \in {SrcOk(rs) : rs \in AllRuleSets}
                  \cup {SrcMissing, SrcMalformed, SrcBadRules}
  /\ InitCommon

NextScore ==
  \/ \E t \in Txs : Call(1, t)
  \/ Resume(1)
  \/ Return(1)

SpecScore == InitScore /\ [][NextScore]_vars

\* --------------------------------- conditions that leave the rule contract
\* rule conditions a rules file can hold: new Function compiles any
\* expression, and its body runs in the global scope of the process
AmbientPool ==
  { Rule("Strict Mode", "process.env.RISK_MODE === 'strict'", Pts(60)),
    Rule("Marks Mode", "(process.env.RISK_MODE = 'strict')", Pts(10)),
    Rule("Reassigned Amount", "(amount = 20000) > 10000", Pts(20)),
    Rule("Very High Amount", "amount > 10000", Pts(50)) }

AmbientRuleSets ==
  UNION { { s \in [1..k -> AmbientPool] :
              \A i, j \in 1..k : i # j => s[i].label # s[j].label }
          : k \in 1..MaxRules }

\* the values of process.env.RISK_MODE
Envs == {EnvUnset, "strict"}

InitAmbient ==
  /\ source \in {SrcOk(rs) : rs \in AmbientRuleSets}
  /\ InitCommon
  /\ \A n \in ConfigNames : cfgFiles[n]

NextAmbient ==
  \/ \E p \in Evals, t \in StoreTxs : Call(p, t)
  \/ \E p \in Evals : Resume(p)
  \/ \E p \in Evals : Return(p)

SpecAmbient == InitAmbient /\ [][NextAmbient]_vars

\* ================================================================== claims
\* an evaluation that has returned
Done(p) == pc[p] = "done"

\* an evaluation that has returned and met no internal failure: the Rule Set
\* was loaded and is a list, both list files could be loaded
Scored(p) ==
  /\ pc[p] = "done"
  /\ ~evalRules[p].threw
  /\ evalRules[p].value.kind = "rules"
  /\ \A n \in ConfigNames : cfgFiles[n]

\* the rule of a Rule Set that carries a label (labels are unique)
RuleOf(rules, label) ==
  CHOOSE r \in {rules[i] : i \in 1..Len(rules)} : r.label = label

\* S, in score units: the sum of the scores of the rules named in labels
RECURSIVE SumScores(_, _)
SumScores(rules, labels) ==
  IF labels = <<>> THEN 0
  ELSE RuleOf(rules, Head(labels)).score + SumScores(rules, Tail(labels))

\* round(100 * S) for S = total / (100 * ScoreScale): the integer n with
\* n <= 100 * S + 1/2 < n + 1
RoundPercent(total) ==
  CHOOSE n \in 0..(total \div ScoreScale + 1) :
    /\ 2 * n * ScoreScale <= 2 * total + ScoreScale
    /\ 2 * total + ScoreScale < 2 * (n + 1) * ScoreScale

Max(a, b) == IF a >= b THEN a ELSE b

C2_ScoreMatchesPercentage ==
  \A p \in Evals : Done(p) =>
    LET r == result[p].value
    IN  /\ ~result[p].threw
        /\ r.riskPercentage \in 0..100
        /\ r.riskScore.num * 100 = r.riskPercentage * r.riskScore.den

\* a result whose sum of scores is not a whole percentage
C2_Witness ==
  \E p \in Evals :
    /\ Scored(p)
    /\ SumScores(evalRules[p].value.rules, result[p].value.triggeredRules)
         # Pts(result[p].value.riskPercentage)

\* C3: every returned result has isHighRisk = (riskScore >= 0.5), riskScore
\* being the returned score.
C3_HighRiskIffHalf ==
  \A p \in Evals : Done(p) =>
    LET r == result[p].value
    IN  r.isHighRisk <=> (2 * r.riskScore.num >= r.riskScore.den)

\* a result exactly on the threshold, reached by rounding up
C3_Witness ==
  \E p \in Evals :
    /\ Scored(p)
    /\ result[p].value.riskPercentage = 50
    /\ result[p].value.isHighRisk
    /\ SumScores(evalRules[p].value.rules, result[p].value.triggeredRules)
         < Pts(50)

\* the bindings of an evaluation
VariablesOf(p) ==
  [amount |-> tx[p].amount, currency |-> tx[p].currency,
   source |-> tx[p].source, email |-> tx[p].email,
   riskyDomains |-> RiskyDomainsFile,
   supportedCurrencies |-> getActiveCurrencyCodes(CurrenciesFile),
   env |-> globals]

\* the condition of a rule evaluates, and to true
Holds(p, rule) ==
  LET out == runCondition(rule.condition, VariablesOf(p))
  IN  ~out.threw /\ out.value

\* the positions of the rules whose condition holds
HoldingAt(p) ==
  LET rules == evalRules[p].value.rules
  IN  {i \in 1..Len(rules) : Holds(p, rules[i])}

\* C4: triggeredRules is the list of the labels of the rules whose condition
\* holds, each once, in the order of the Rule Set.
C4_TriggeredInRuleOrder ==
  \A p \in Evals : Scored(p) =>
    LET rules == evalRules[p].value.rules
        trig == result[p].value.triggeredRules
        H == HoldingAt(p)
    IN  /\ Len(trig) = Cardinality(H)
        /\ \A i \in H : trig[Cardinality({j \in H : j <= i})] = rules[i].label

\* two rules hold, with a rule that does not hold before or between them
C4_Witness ==
  \E p \in Evals :
    /\ Scored(p)
    /\ Len(result[p].value.triggeredRules) = 2
    /\ Len(evalRules[p].value.rules) = 3
    /\ 3 \in HoldingAt(p)

\* the condition of a rule fails to evaluate
Fails(p, rule) == runCondition(rule.condition, VariablesOf(p)).threw

RECURSIVE WithoutFailing(_, _)
WithoutFailing(p, rules) ==
  IF rules = <<>> THEN <<>>
  ELSE IF Fails(p, Head(rules)) THEN WithoutFailing(p, Tail(rules))
  ELSE <<Head(rules)>> \o WithoutFailing(p, Tail(rules))

\* C5: a rule whose condition fails to evaluate is not in triggeredRules, the
\* result is the one the Rule Set without the failing rules gives, and the
\* failure does not leave the evaluation.
C5_FailingRuleIgnored ==
  \A p \in Evals : Scored(p) =>
    LET rules == evalRules[p].value.rules
        kept == WithoutFailing(p, rules)
        expected == scoreRules(RulesVal(kept), tx[p], RiskyDomainsFile,
                               getActiveCurrencyCodes(CurrenciesFile), globals)
    IN  /\ ~result[p].threw
        /\ \A i \in 1..Len(rules) : Fails(p, rules[i]) =>
             \A k \in 1..Len(result[p].value.triggeredRules) :
                result[p].value.triggeredRules[k] # rules[i].label
        /\ result[p] = expected
        /\ result[p].value.riskPercentage
             = Min(100, RoundPercent(SumScores(kept, result[p].value.triggeredRules)))

\* a failing rule stands before a rule that triggers
C5_Witness ==
  \E p \in Evals :
    /\ Scored(p)
    /\ Len(evalRules[p].value.rules) >= 2
    /\ Fails(p, evalRules[p].value.rules[1])
    /\ result[p].value.triggeredRules # <<>>

\* an evaluation that has returned after an internal failure: the load
\* raised, the cached value is not a list, or a list file is missing
Failed(p) ==
  /\ pc[p] = "done"
  /\ \/ evalRules[p].threw
     \/ evalRules[p].value.kind # "rules"
     \/ \E n \in ConfigNames : ~cfgFiles[n]

\* C6: calculateRiskScore never raises; after an internal failure it returns
\* riskScore 0, riskPercentage 0, isHighRisk false, triggeredRules [].
C6_FailOpen ==
  \A p \in Evals : Done(p) =>
    /\ ~result[p].threw
    /\ Failed(p) =>
         /\ result[p].value.riskScore.num = 0
         /\ result[p].value.riskPercentage = 0
         /\ ~result[p].value.isHighRisk
         /\ result[p].value.triggeredRules = <<>>

\* an evaluation whose load of the rules raised has returned the defaults
C6_Witness ==
  \E p \in Evals :
    /\ pc[p] = "done"
    /\ evalRules[p].threw
    /\ result[p] = Ret(SafeDefault)

\* C7: when the rule source is missing or malformed the load fails and this
\* is fatal to the evaluation: no evaluation whose load failed completes with
\* an ordinary result.
C7_ConfigFailureIsFatal ==
  \A p \in Evals : (pc[p] = "done" /\ evalRules[p].threw) => result[p].threw

\* a step of reloadRules, of getLoadedRules, of the start of an evaluation
ReloadStep ==
  pc' = pc /\ source' = source /\ adminRet'.op = "reloadRules"

GetStep ==
  pc' = pc /\ source' = source /\ adminRet'.op = "getLoadedRules"

CallStep(p) == pc[p] = "idle" /\ pc'[p] = "awaitLoad"

\* C8: once a Rule Set is cached, every step other than a reload leaves the
\* cache and the number of reads of the source as they are, and every load
\* returns the cached set, whatever the source holds by then.
C8_ReadOnce ==
  [][ (fraudRules.kind = "rules" /\ ~ReloadStep) =>
        /\ reads' = reads
        /\ fraudRules' = fraudRules
        /\ GetStep => adminRet'.out = Ret(fraudRules)
        /\ \A p \in Evals : CallStep(p) => evalRules'[p] = Ret(fraudRules)
    ]_vars

\* getLoadedRules and two evaluations were served by one read, and the source
\* holds another Rule Set by now
C8_Witness ==
  /\ reads = 1
  /\ fraudRules.kind = "rules"
  /\ source.kind = "ok" /\ source.rules # fraudRules.rules
  /\ adminRet = [op |-> "getLoadedRules", out |-> Ret(fraudRules)]
  /\ \A p \in Evals : pc[p] = "awaitLoad" /\ evalRules[p] = Ret(fraudRules)

\* the last administrative call was a reload that returned
Reloaded == adminRet.op = "reloadRules" /\ ~adminRet.out.threw

\* C9: a reload that returns has read the source and made the set it read the
\* cached one (equal to the set before when the source is unchanged); after
\* it, getLoadedRules and the evaluations that start get that set.
C9_ReloadReplaces ==
  [][ /\ (ReloadStep /\ ~adminRet'.out.threw) =>
           /\ source.kind = "ok"
           /\ fraudRules' = RulesVal(source.rules)
           /\ reads' = reads + 1
      /\ (Reloaded /\ ~ReloadStep) =>
           /\ fraudRules.kind = "rules"
           /\ fraudRules' = fraudRules
           /\ GetStep => adminRet'.out = Ret(fraudRules)
           /\ \A p \in Evals : CallStep(p) => evalRules'[p] = Ret(fraudRules)
    ]_vars

\* after a reload of a changed source an evaluation started with the new set,
\* while another still holds the set cached before
C9_Witness ==
  /\ Reloaded
  /\ \E p, q \in Evals :
       /\ pc[p] = "awaitLoad" /\ evalRules[p] = Ret(fraudRules)
       /\ pc[q] = "awaitLoad" /\ ~evalRules[q].threw
       /\ evalRules[q].value.kind = "rules"
       /\ evalRules[q].value # fraudRules

\* C10: whatever reloads happen while an evaluation is in flight, its result
\* is the one of a single complete Rule Set of the source, the one it loaded
\* when it was called; its triggered rules all belong to that set.
C10_OneRuleSet ==
  \A p \in Evals : Scored(p) =>
    LET rules == evalRules[p].value.rules
        trig == result[p].value.triggeredRules
    IN  /\ SrcOk(rules) \in StoreSources
        /\ result[p] = scoreRules(RulesVal(rules), tx[p], RiskyDomainsFile,
                                  getActiveCurrencyCodes(CurrenciesFile),
                                  globals)
        /\ \A k \in 1..Len(trig) :
             \E i \in 1..Len(rules) : rules[i].label = trig[k]
        /\ \A i \in HoldingAt(p) :
             \E k \in 1..Len(trig) : rules[i].label = trig[k]

\* an evaluation has finished with rules of the set it loaded, although a
\* reload replaced the cached set while it was in flight
C10_Witness ==
  \E p \in Evals :
    /\ Scored(p)
    /\ fraudRules.kind = "rules"
    /\ fraudRules # evalRules[p].value
    /\ result[p].value.triggeredRules # <<>>

\* a step in which caller p starts generateFraudExplanation
ExplainStep(p) == epc[p] = "idle" /\ epc'[p] # "idle"

\* a step in which the administrative operation op of LLMService runs: no
\* call moves and the rule store is not operated
AdminStep(op) ==
  /\ llmAdmin'.op = op
  /\ UNCHANGED <<pc, epc, cpc, adminRet, source>>

\* a step in which clearCache runs
ClearStep == AdminStep("clearCache")

\* C11: when the explanation cache holds an entry under the key of a call,
\* whether a generated text or a fallback, generateFraudExplanation returns
\* exactly that entry, does not invoke the generator and leaves the cache as
\* it is.
C11_HitReturnsCached ==
  [][\A p \in Evals :
       (ExplainStep(p) /\ KeyOfArgs(eargs'[p]) \in DOMAIN explanationCache)
         => /\ epc'[p] = "returnCached"
            /\ eret'[p] = explanationCache[KeyOfArgs(eargs'[p])]
            /\ explanationCache' = explanationCache]_vars

\* a call was served a fallback that an earlier call with the rules in
\* another order left in the cache
C11_Witness ==
  \E p \in Evals :
    /\ epc[p] = "returnCached"
    /\ eret[p].kind = "flagged"
    /\ eret[p] = explanationCache[KeyOf(p)]
    /\ eret[p] # generateFallbackExplanation(eargs[p].riskScore,
                                             eargs[p].triggeredRules)

\* the labels of a call as a set
RuleSetOf(a) == { a.triggeredRules[i] : i \in 1..Len(a.triggeredRules) }

\* the fingerprint of a call: amount, currency, email and the set of labels
Fingerprint(a) == <<a.amount, a.currency, a.email, RuleSetOf(a)>>

\* the callers whose call has completed
Explained == { p \in Evals : epc[p] \in Returning }

\* C12: when explanation calls are made one after the other with no clear in
\* between, two calls with the same amount, currency and email and the same
\* set of labels, in any order, use the same cache entry and return the same
\* text, and the cache holds at most one entry per fingerprint called.
C12_SameFingerprintSameEntry ==
  /\ \A p, q \in Explained :
       Fingerprint(eargs[p]) = Fingerprint(eargs[q])
         => /\ KeyOf(p) = KeyOf(q)
            /\ KeyOf(p) \in DOMAIN explanationCache
            /\ eret[p] = eret[q]
            /\ eret[p] = explanationCache[KeyOf(p)]
  /\ Cardinality(DOMAIN explanationCache)
       <= Cardinality({ Fingerprint(eargs[p]) : p \in Explained })

\* two calls have completed with the same labels in different orders
C12_Witness ==
  \E p, q \in Explained :
    /\ Fingerprint(eargs[p]) = Fingerprint(eargs[q])
    /\ eargs[p].triggeredRules # eargs[q].triggeredRules
    /\ Cardinality(DOMAIN explanationCache) = 1

\* C13: two completed calls whose fingerprints differ in a component use
\* different cache entries, and the cache holds one entry for each.
C13_DistinctFingerprintDistinctEntry ==
  \A p, q \in Explained :
    Fingerprint(eargs[p]) # Fingerprint(eargs[q])
      => /\ KeyOf(p) # KeyOf(q)
         /\ {KeyOf(p), KeyOf(q)} \subseteq DOMAIN explanationCache
         /\ eret[p] = explanationCache[KeyOf(p)]
         /\ eret[q] = explanationCache[KeyOf(q)]

\* a step in which the call of p comes back from the generator
GenStep(p) == epc[p] = "awaitGen" /\ epc'[p] # "awaitGen"

\* C14: when the generator fails after a cache miss, generateFraudExplanation
\* returns the fallback text computed from its own arguments instead of an
\* error, and stores it under the key of the call the way a generated text
\* is stored.
C14_FailureCachesFallback ==
  [][\A p \in Evals :
       (GenStep(p) /\ epc'[p] = "returnFallback")
         => /\ eret'[p] = generateFallbackExplanation(eargs[p].riskScore,
                                                      eargs[p].triggeredRules)
            /\ explanationCache'
                 = cacheSet(explanationCache, KeyOf(p), eret'[p])]_vars

\* a call whose generator failed has returned the fallback, and the cache
\* holds it under the key of the call
C14_Witness ==
  \E p \in Evals :
    /\ epc[p] = "returnFallback"
    /\ KeyOf(p) \in DOMAIN explanationCache
    /\ explanationCache[KeyOf(p)] = eret[p]
    /\ eret[p].kind = "flagged"

\* the callers whose call missed the cache and came back from the generator
Generating == { p \in Evals : epc[p] \in {"returnFinal", "returnFallback"} }

\* C15: calls with the same fingerprint that overlap may both miss and both
\* invoke the generator; the call that completes later overwrites the entry of
\* the earlier one, so the cache keeps exactly one entry for the fingerprint
\* and its value is the one written last.
C15_LastWriteWins ==
  [][\A p \in Evals :
       (GenStep(p) /\ KeyOf(p) \in DOMAIN explanationCache)
         => /\ DOMAIN explanationCache' = DOMAIN explanationCache
            /\ explanationCache'[KeyOf(p)] = eret'[p]
            /\ \A k \in DOMAIN explanationCache \ {KeyOf(p)} :
                 explanationCache'[k] = explanationCache[k]]_vars

\* two calls with the same arguments have both come back from the generator
\* with different texts, and the one entry of the cache holds one of them
C15_Witness ==
  \E p, q \in Generating :
    /\ p # q
    /\ eargs[p] = eargs[q]
    /\ eret[p] # eret[q]
    /\ explanationCache[KeyOf(p)] = eret[q]
    /\ Cardinality(DOMAIN explanationCache) = 1

\* C16: an entry of the explanation cache stays until clearCache runs: no
\* explanation call, getCacheSize or getCachedExplanation removes an entry,
\* so the size does not decrease between two clears.
C16_NoEviction ==
  [][~ClearStep =>
       /\ DOMAIN explanationCache \subseteq DOMAIN explanationCache'
       /\ Cardinality(DOMAIN explanationCache')
            >= Cardinality(DOMAIN explanationCache)]_vars

\* the cache holds two entries, one was returned to a caller, and
\* getCacheSize has just reported both
C16_Witness ==
  /\ Cardinality(DOMAIN explanationCache) = 2
  /\ llmAdmin.op = "getCacheSize"
  /\ llmAdmin.size = 2
  /\ \E p \in Evals : epc[p] = "returnCached"

\* C17: getCacheSize and getCachedExplanation leave the explanation cache as
\* it is, getCachedExplanation returns the stored text or nothing for an
\* absent key, and clearCache leaves the cache with size 0; none of the three
\* changes the cached rules or the transaction log.
C17_AdminFrame ==
  [][/\ AdminStep("getCacheSize")
          => /\ explanationCache' = explanationCache
             /\ llmAdmin'.size = Cardinality(DOMAIN explanationCache)
             /\ UNCHANGED <<fraudRules, transactions>>
     /\ AdminStep("getCachedExplanation")
          => /\ explanationCache' = explanationCache
             /\ llmAdmin'.found = (llmAdmin'.key \in DOMAIN explanationCache)
             /\ llmAdmin'.found
                  => llmAdmin'.text = explanationCache[llmAdmin'.key]
             /\ UNCHANGED <<fraudRules, transactions>>
     /\ AdminStep("clearCache")
          => /\ Cardinality(DOMAIN explanationCache') = 0
             /\ UNCHANGED <<fraudRules, transactions>>]_vars

\* clearCache has run after a charge was logged: the cache is empty, the
\* rules are still loaded and the log still holds the entry
C17_Witness ==
  /\ llmAdmin.op = "clearCache"
  /\ Cardinality(DOMAIN explanationCache) = 0
  /\ fraudRules # Null
  /\ Len(transactions) >= 1
  /\ transactions[1].llmExplanation.kind # "none"

\* the positions of '@' in an email
AtPositions(email) == { i \in 1..Len(email) : email[i] = "@" }

\* the text after the last '@'
AfterLastAt(email) ==
  LET last == CHOOSE i \in AtPositions(email) :
                \A j \in AtPositions(email) : j <= i
  IN  SubSeq(email, last + 1, Len(email))

\* the reference predicate: false without '@' or without text after the last
\* '@', otherwise whether the lower-cased domain ends with a risky suffix
RiskyReference(email, riskyDomains) ==
  IF AtPositions(email) = {} THEN FALSE
  ELSE IF AfterLastAt(email) = <<>> THEN FALSE
  ELSE \E i \in 1..Len(riskyDomains) :
         endsWith(toLowerCase(AfterLastAt(email)), toLowerCase(riskyDomains[i]))

\* C18: for the email of every evaluation, isRiskyDomain returns the value of
\* the reference predicate and does not fail.
C18_RiskyDomainReference ==
  \A p \in Evals :
    pc[p] # "idle"
      => isRiskyDomain(tx[p].email, RiskyDomainsFile)
           = Ret(RiskyReference(tx[p].email, RiskyDomainsFile))

\* the error of the first failing field of a request in the order amount,
\* currency, source, email; "" when every field passes
ExpectedError(chargeData) ==
  IF ~validateAmount(chargeData.amount).isValid
  THEN validateAmount(chargeData.amount).error
  ELSE IF ~validateCurrency(chargeData.currency).isValid
  THEN validateCurrency(chargeData.currency).error
  ELSE IF ~validateSource(chargeData.source).isValid
  THEN validateSource(chargeData.source).error
  ELSE IF ~validateEmail(chargeData.email).isValid
  THEN validateEmail(chargeData.email).error
  ELSE ""

\* a step in which processCharge is called for p
StartStep(p) == cpc[p] = "idle" /\ cpc'[p] # "idle"

\* C19: processCharge answers a request that fails a check with the error of
\* the first failing field, in the order amount, currency, source, email, and
\* data null; for such a request no scoring and no explanation is started, and
\* the transaction log, the explanation cache and the rule store stay as they
\* are.
C19_RejectedLeavesNoTrace ==
  [][\A p \in Evals :
       (StartStep(p) /\ ExpectedError(creq'[p]) # "")
         => /\ cpc'[p] = "responded"
            /\ cresp'[p] = [NoResp EXCEPT !.message = ExpectedError(creq'[p])]
            /\ ~cresp'[p].success /\ ~cresp'[p].hasData
            /\ pc'[p] = "idle" /\ epc'[p] = "idle"
            /\ UNCHANGED <<transactions, explanationCache, fraudRules, reads,
                           pc, epc, result, eret>>]_vars

\* a request with an invalid source and an invalid email was answered with the
\* error of the source while the log and the cache hold entries
C19_Witness ==
  \E p \in Evals :
    /\ cpc[p] = "responded"
    /\ ~isValidSource(creq[p].source) /\ ~isValidEmail(creq[p].email)
    /\ cresp[p].message = "Source must be either 'stripe' or 'paypal'"
    /\ ~cresp[p].hasData
    /\ Len(transactions) >= 1
    /\ Cardinality(DOMAIN explanationCache) >= 1

\* the charges that passed the checks and were answered
Charged == { p \in Evals : cpc[p] = "responded" /\ ExpectedError(creq[p]) = "" }

C21_FailedProviderIsUnhealthy ==
  (hpc = "done" /\ apiKey)
    => /\ epc[Prober] = "returnFallback"
            => health.overall = "unhealthy" /\ health.status = "unhealthy"
       /\ health.overall = "healthy" => epc[Prober] = "returnFinal"

\* a step of performHealthChecks or of the explanation call it makes
ProbeStep == hpc' # hpc \/ epc'[Prober] # epc[Prober]

\* C30: performHealthChecks leaves the explanation cache as it is, so no
\* entry produced for the probe is there for a later call to be served.
C30_ProbeLeavesCache ==
  [][ProbeStep => explanationCache' = explanationCache]_vars

\* the step in which an evaluation runs its rules and produces its result
ScoreStep(p) == pc[p] = "awaitLoad" /\ pc'[p] = "done"

\* C22: evaluating the rules reads and changes nothing outside the
\* transaction and the two helper functions: the step leaves process.env as
\* it was, and its result is the one any other process.env would have given.
C22_ConditionsSandboxed ==
  [][\A p \in Evals : ScoreStep(p) =>
       /\ globals' = globals
       /\ \A e \in Envs :
            result'[p] = scoringCatch(tryBlock(evalRules[p], loopRules(p),
                                               tx[p], cfgCache, e).out)]_vars

\* C23: two evaluations of the same transaction against the same Rule Set
\* (and the same two lists) have the same result, whatever ran before them.
C23_SameInputSameResult ==
  \A p, q \in Evals :
    (/\ Done(p) /\ Done(q)
     /\ tx[p] = tx[q]
     /\ evalRules[p] = evalRules[q]) => result[p] = result[q]

\* a Rule Set none of whose conditions touches process.env
EnvFree(rules) ==
  \A i \in 1..Len(rules) :
    /\ rules[i].condition # "process.env.RISK_MODE === 'strict'"
    /\ rules[i].condition # "(process.env.RISK_MODE = 'strict')"

\* the labels, in rule order, of the rules whose condition holds for the
\* bindings of the request itself
RECURSIVE HoldingLabels(_, _)
HoldingLabels(p, rules) ==
  IF rules = <<>> THEN <<>>
  ELSE (IF Holds(p, Head(rules)) THEN <<Head(rules).label>> ELSE <<>>)
       \o HoldingLabels(p, Tail(rules))

\* C24: within one evaluation every rule sees the amount, currency, source
\* and email of the request: the triggered rules are those that hold for the
\* request's own values, also after a rule that assigns to a variable, and
\* the transaction of the caller is the same after the evaluation.
C24_BindingsNotMutated ==
  [][\A p \in Evals :
       (ScoreStep(p) /\ EnvFree(evalRules[p].value.rules)) =>
         /\ tx'[p] = tx[p]
         /\ result'[p].value.triggeredRules =
              HoldingLabels(p, evalRules[p].value.rules)]_vars

\* an evaluation of a request of amount 100 has returned whose Rule Set has
\* the rule that assigns 20000 to amount before the rule `amount > 10000`:
\* the first triggered, the second did not
C24_Witness ==
  \E p \in Evals :
    /\ Done(p) /\ tx[p].amount = 100
    /\ LET rules == evalRules[p].value.rules
           trig == result[p].value.triggeredRules
       IN  /\ EnvFree(rules)
           /\ \E i, j \in 1..Len(rules) :
                /\ i < j
                /\ rules[i].condition = "(amount = 20000) > 10000"
                /\ rules[j].condition = "amount > 10000"
           /\ trig = <<"Reassigned Amount">>

\* C25: a load that fails leaves the rule cache unset: the cache holds
\* nothing or a list of rules, and what a load returns to an evaluation or to
\* getLoadedRules is a list of rules, never the value of a failed load.
C25_FailedLoadNotCached ==
  /\ fraudRules.kind \in {"null", "rules"}
  /\ \A p \in Evals :
       (pc[p] # "idle" /\ ~evalRules[p].threw) =>
          evalRules[p].value.kind = "rules"
  /\ (adminRet.op = "getLoadedRules" /\ ~adminRet.out.threw) =>
        adminRet.out.value.kind = "rules"

\* C26: a reloadRules that fails leaves the Rule Set that was loaded before
\* in the cache.
C26_FailedReloadKeepsRules ==
  [][(ReloadStep /\ fraudRules.kind = "rules" /\ adminRet'.out.threw) =>
       fraudRules' = fraudRules]_vars

\* C27: once a generated explanation is cached under a key, no step other
\* than clearCache replaces it with a fallback text.
C27_GeneratedNotDegraded ==
  [][~ClearStep =>
       \A k \in DOMAIN explanationCache :
         explanationCache[k].kind = "generated" =>
           /\ k \in DOMAIN explanationCache'
           /\ explanationCache'[k].kind = "generated"]_vars

\* C28: an explain call that was awaiting the generator when clearCache ran
\* stores nothing when the generator answers.
C28_ClearedStaysEmpty ==
  [][\A p \in Evals :
       (GenStep(p) /\ stale[p]) => explanationCache' = explanationCache]_vars

\* the orders in which a list of labels can be given
Orderings(labels) ==
  LET n == Len(labels) IN
  { [i \in 1..n |-> labels[f[i]]] :
      f \in { g \in [1..n -> 1..n] : \A i, j \in 1..n : i # j => g[i] # g[j] } }

\* C29: a fallback text returned by explain states the percentage of the
\* riskScore passed to that call and lists that call's triggeredRules, in
\* some order.
C29_FallbackDescribesCall ==
  \A p \in Explained :
    eret[p].kind \in {"safe", "flagged"} =>
      \E o \in Orderings(eargs[p].triggeredRules) :
        eret[p] = generateFallbackExplanation(eargs[p].riskScore, o)
====
